---- MODULE Spec2Model ----
(***************************************************************************)
(* Model of the audio joiner: yt_audio_mix.py (command line pipeline) and  *)
(* streamlit_app.py (UI pipeline and UI runner).                           *)
(*                                                                         *)
(* Six specifications share the variables below:                          *)
(*   Spec          one pipeline run (CLI main or UI main/_run_pipeline)    *)
(*   SpecResolver  the two input resolvers applied to one raw list         *)
(*   SpecTempo     tempo_adjust's filter-chain loops on one speed          *)
(*   SpecTempoFair SpecTempo with weak fairness (the loops keep running)   *)
(*   SpecDriver    one external invocation through run or run_ui           *)
(*   SpecSessions  two UI pipeline runs interleaved in one process         *)
(* A specification leaves the variables of the others at their idle value. *)
(***************************************************************************)
EXTENDS Integers, Sequences, FiniteSets, TLC

VARIABLES
    \* ---- pipeline run
    mode,             \* "cli" | "ui" | "idle"
    pc,               \* position of the run
    raw_args,         \* cli: args.urls; ui: the four input slots
    speed,            \* args.speed / speed
    bg_dir,           \* names (slot, ext) of the files that exist in the bg directory
    urls,             \* cli: clean_urls; ui: urls passed to _run_pipeline
    uploaded_files,   \* ui: uploaded_files passed to _run_pipeline
    background_paths, \* background_paths / bg_paths
    work,             \* files present in the work directory
    materialized,     \* outputs of the external steps that completed with status 0
    spawned,          \* the external invocations issued so far, in order
    fixed_tracks,
    sped_tracks,
    order,
    idx,              \* 1-based index of the loop the run is in
    manifest,         \* lines of concat_list.txt, or NoFile
    result,           \* how the run ended
    \* ---- input resolver
    rraw, rcli, rui, rpc,
    \* ---- tempo filter chain
    tspeed, ts, tfilters, tpc,
    \* ---- transcode driver
    runner, toWrite, written, pipe, child, returncode, sink, captured, dpc,
    \* ---- two UI runs in one process
    ym_run,           \* the module attribute ym.run: 0 = run, r = the run_ui made by run r
    upc,              \* position of each run
    ucalls,           \* helper invocations each run has completed
    looked_up,        \* the runner the helper call in flight resolved `run` to
    child_left,       \* lines the child of the invocation in flight has yet to write
    logs              \* what each run's log_callback has received, in order

pvars == <<mode, pc, raw_args, speed, bg_dir, urls, uploaded_files, background_paths,
           work, materialized, spawned, fixed_tracks, sped_tracks, order, idx, manifest, result>>
rvars == <<rraw, rcli, rui, rpc>>
tvars == <<tspeed, ts, tfilters, tpc>>
dvars == <<runner, toWrite, written, pipe, child, returncode, sink, captured, dpc>>
cvars == <<ym_run, upc, ucalls, looked_up, child_left, logs>>
vars == <<pvars, rvars, tvars, dvars, cvars>>

\* ------------------------------------------------------------------------
\* Generic helpers
\* ------------------------------------------------------------------------

Min(a, b) == IF a <= b THEN a ELSE b

Abs(a) == IF a >= 0 THEN a ELSE -a

RECURSIVE Pow2(_)
Pow2(k) == IF k <= 0 THEN 1 ELSE 2 * Pow2(k - 1)

\* Python's s[:k]
Take(s, k) == SubSeq(s, 1, Min(k, Len(s)))

\* All sequences over S of length lo..hi
SeqsOf(S, lo, hi) == UNION { [1..k -> S] : k \in lo..hi }

\* ------------------------------------------------------------------------
\* Text.  A string is a sequence of atoms; the atom " " is whitespace, "\n"
\* the line terminator, "/", "\\" and "|" the placeholder characters, and
\* any other atom stands for a run of non-blank text.
\* ------------------------------------------------------------------------

IsSpace(c) == c \in {" ", "\n"}

RECURSIVE LStrip(_)
LStrip(s) ==
    IF s # <<>> /\ IsSpace(Head(s)) THEN LStrip(Tail(s)) ELSE s

RECURSIVE RStrip(_)
RStrip(s) ==
    IF s # <<>> /\ IsSpace(s[Len(s)]) THEN RStrip(SubSeq(s, 1, Len(s) - 1)) ELSE s

\* str.strip()
Strip(s) == RStrip(LStrip(s))

\* every entry of a list stripped
StripAll(l) == [k \in 1..Len(l) |-> Strip(l[k])]

\* the literal set {"\\", "/", "|"} of both resolvers
Placeholders == { <<"\\">>, <<"/">>, <<"|">> }

\* str.splitlines(): cut at each "\n"; a trailing terminator opens no empty line
RECURSIVE SplitLinesFrom(_, _)
SplitLinesFrom(s, cur) ==
    IF s = <<>> THEN (IF cur = <<>> THEN <<>> ELSE <<cur>>)
    ELSE IF Head(s) = "\n" THEN <<cur>> \o SplitLinesFrom(Tail(s), <<>>)
    ELSE SplitLinesFrom(Tail(s), Append(cur, Head(s)))

SplitLines(s) == SplitLinesFrom(s, <<>>)

\* ------------------------------------------------------------------------
\* Input Resolver
\* ------------------------------------------------------------------------

\* the cap [:4] of both resolvers
MaxSources == 4

CliKeeps(u) == Strip(u) \notin (Placeholders \cup { <<>> })

\* yt_audio_mix.main: [u for u in (args.urls[:4]) if u.strip() not in {...}]
CleanUrlsCli(args) == SelectSeq(Take(args, MaxSources), CliKeeps)

UiKeeps(l) == l # <<>> /\ l \notin Placeholders

\* streamlit_app._validate_and_clean_urls
ValidateAndCleanUrls(raw_text) ==
    LET split == SplitLines(raw_text)
        lines == [k \in 1..Len(split) |-> Strip(split[k])]
        kept  == SelectSeq(lines, UiKeeps)
    IN  Take(kept, MaxSources)

\* the text whose lines are the entries of a raw list (the UI text area)
RECURSIVE JoinLines(_)
JoinLines(raw) ==
    IF raw = <<>> THEN <<>>
    ELSE IF Len(raw) = 1 THEN raw[1]
    ELSE raw[1] \o <<"\n">> \o JoinLines(Tail(raw))

\* bound: longest enumerated raw list
MaxRaw == 5

RawEntries == { <<>>, <<" ", " ">>, <<"/">>, <<"|">>, <<"a">>, <<" ", "b", " ">> }

\* the raw list of the specification's worked example
ExampleRaw ==
    << <<>>, <<" ", " ">>, <<"/">>, <<"validURL">>, <<"another">>, <<"extra1">>, <<"extra2">> >>

RawLists == SeqsOf(RawEntries, 1, MaxRaw) \cup { ExampleRaw }

NotRun == <<"not run">>

ResolverIdle ==
    /\ rraw = <<>>
    /\ rcli = NotRun
    /\ rui = NotRun
    /\ rpc = "idle"

ResolverInit ==
    /\ rraw \in RawLists
    /\ rcli = NotRun
    /\ rui = NotRun
    /\ rpc = "ready"

ResolveCli ==
    /\ rpc = "ready"
    /\ rcli = NotRun
    /\ rcli' = CleanUrlsCli(rraw)
    /\ UNCHANGED <<rraw, rui, rpc>>
    /\ UNCHANGED <<pvars, tvars, dvars, cvars>>

ResolveUi ==
    /\ rpc = "ready"
    /\ rui = NotRun
    /\ rui' = ValidateAndCleanUrls(JoinLines(rraw))
    /\ UNCHANGED <<rraw, rcli, rpc>>
    /\ UNCHANGED <<pvars, tvars, dvars, cvars>>

ResolverNext ==
    \/ ResolveCli
    \/ ResolveUi

\* ------------------------------------------------------------------------
\* Numbers.  A float is n/d * 2^e held exactly, [n, d, e] with d > 0: the
\* divisions by 2.0 and by 0.5 of tempo_adjust are exact on a binary float,
\* and so are they here (they move e).  Comparisons cross-multiply.
\* ------------------------------------------------------------------------

Float(n, d, e) == [n |-> n, d |-> d, e |-> e]

\* numerator and denominator of the value as one fraction
FNum(x) == x.n * Pow2(x.e)

FDen(x) == x.d * Pow2(-x.e)

FLess(x, y) == FNum(x) * FDen(y) < FNum(y) * FDen(x)

FLeq(x, y) == FNum(x) * FDen(y) <= FNum(y) * FDen(x)

Two == Float(2, 1, 0)

Half == Float(1, 2, 0)

FOne == Float(1, 1, 0)

\* s /= 2.0
HalveF(x) == Float(x.n, x.d, x.e - 1)

\* s /= 0.5
DoubleF(x) == Float(x.n, x.d, x.e + 1)

\* speed <= 0
NonPositive(x) == x.n <= 0

\* 10^9, the reciprocal of the 1e-9 of abs(speed - 1.0) > 1e-9
Billion == 1000000000

\* abs(speed - 1.0) > 1e-9, as |num - den| * 10^9 > den
DiffersFromOne(x) ==
    LET diff == Abs(FNum(x) - FDen(x))
    IN  diff # 0 /\ (FDen(x) \div diff) < Billion

\* ------------------------------------------------------------------------
\* Tempo Filter Chain Builder (yt_audio_mix.tempo_adjust).  A filter
\* "atempo=<v>" is held as v in millionths: "atempo=2.0" is 2000000,
\* "atempo=0.5" is 500000 and f"atempo={s:.6f}" is Round6(s).
\* ------------------------------------------------------------------------

\* millionths in one unit: the 6 of the format ".6f"
Million == 1000000

AtempoTwo == 2 * Million

AtempoHalf == Million \div 2

\* the value in millionths, rounded down
Trunc6(x) == (FNum(x) * Million) \div FDen(x)

\* f"{s:.6f}": the nearest millionth, a tie to the even one
Round6(x) ==
    LET num == FNum(x) * Million
        den == FDen(x)
        q   == num \div den
        r2  == 2 * (num % den)
    IN  IF r2 < den THEN q
        ELSE IF r2 > den THEN q + 1
        ELSE IF q % 2 = 0 THEN q ELSE q + 1

\* the loop test with the bound one step too high
AboveFour(x) == FLess(Float(4, 1, 0), x)

\* while s > 2.0
AboveTwo(x) == FLess(Two, x)

\* while s < 0.5
BelowHalf(x) == FLess(x, Half)

\* bound: denominator of the enumerated mantissas n/MantDen in [1, 2)
MantDen == 256

\* bound: the enumerated speeds are mantissa * 2^e for e in -MaxExp..MaxExp
MaxExp == 14

\* 10000 = 625/512 * 2^13 and 0.0001 = 1024/625 * 2^-14
Speed10000 == Float(625, 512, 13)

Speed0001 == Float(1024, 625, -14)

TempoSpeeds ==
    { Float(n, MantDen, e) : n \in MantDen..(2 * MantDen - 1), e \in (-MaxExp)..MaxExp }
        \cup { Speed10000, Speed0001, Float(0, 1, 0), Float(-1, 1, 0) }

TempoIdle ==
    /\ tspeed = FOne
    /\ ts = FOne
    /\ tfilters = <<>>
    /\ tpc = "idle"

TempoInit ==
    /\ tspeed \in TempoSpeeds
    /\ ts = tspeed
    /\ tfilters = <<>>
    /\ tpc = "check"

\* if speed <= 0: raise SystemExit("--speed must be > 0")
TempoReject ==
    /\ tpc = "check"
    /\ NonPositive(tspeed)
    /\ tpc' = "rejected"
    /\ UNCHANGED <<tspeed, ts, tfilters>>
    /\ UNCHANGED <<pvars, rvars, dvars, cvars>>

\* filters = []; s = speed
TempoStart ==
    /\ tpc = "check"
    /\ ~NonPositive(tspeed)
    /\ ts' = tspeed
    /\ tfilters' = <<>>
    /\ tpc' = "high"
    /\ UNCHANGED tspeed
    /\ UNCHANGED <<pvars, rvars, dvars, cvars>>

\* while s > 2.0: filters.append("atempo=2.0"); s /= 2.0
TempoHighStep ==
    /\ tpc = "high"
    /\ AboveTwo(ts)
    /\ tfilters' = Append(tfilters, AtempoTwo)
    /\ ts' = HalveF(ts)
    /\ UNCHANGED <<tspeed, tpc>>
    /\ UNCHANGED <<pvars, rvars, dvars, cvars>>

TempoHighExit ==
    /\ tpc = "high"
    /\ ~AboveTwo(ts)
    /\ tpc' = "low"
    /\ UNCHANGED <<tspeed, ts, tfilters>>
    /\ UNCHANGED <<pvars, rvars, dvars, cvars>>

\* while s < 0.5: filters.append("atempo=0.5"); s /= 0.5
TempoLowStep ==
    /\ tpc = "low"
    /\ BelowHalf(ts)
    /\ tfilters' = Append(tfilters, AtempoHalf)
    /\ ts' = DoubleF(ts)
    /\ UNCHANGED <<tspeed, tpc>>
    /\ UNCHANGED <<pvars, rvars, dvars, cvars>>

TempoLowExit ==
    /\ tpc = "low"
    /\ ~BelowHalf(ts)
    /\ tpc' = "emit"
    /\ UNCHANGED <<tspeed, ts, tfilters>>
    /\ UNCHANGED <<pvars, rvars, dvars, cvars>>

\* filters.append(f"atempo={s:.6f}")
TempoEmit ==
    /\ tpc = "emit"
    /\ tfilters' = Append(tfilters, Round6(ts))
    /\ tpc' = "done"
    /\ UNCHANGED <<tspeed, ts>>
    /\ UNCHANGED <<pvars, rvars, dvars, cvars>>

TempoNext ==
    \/ TempoReject
    \/ TempoStart
    \/ TempoHighStep
    \/ TempoHighExit
    \/ TempoLowStep
    \/ TempoLowExit
    \/ TempoEmit

\* ------------------------------------------------------------------------
\* Idle values of the pipeline and driver variables
\* ------------------------------------------------------------------------

NoFile == <<"no file">>

PipelineIdle ==
    /\ mode = "idle"
    /\ pc = "idle"
    /\ raw_args = <<>>
    /\ speed = FOne
    /\ bg_dir = {}
    /\ urls = <<>>
    /\ uploaded_files = <<>>
    /\ background_paths = <<>>
    /\ work = {}
    /\ materialized = {}
    /\ spawned = <<>>
    /\ fixed_tracks = <<>>
    /\ sped_tracks = <<>>
    /\ order = <<>>
    /\ idx = 0
    /\ manifest = NoFile
    /\ result = "none"

DriverIdle ==
    /\ runner = "idle"
    /\ toWrite = <<>>
    /\ written = <<>>
    /\ pipe = <<>>
    /\ child = "idle"
    /\ returncode = 0
    /\ sink = <<>>
    /\ captured = <<>>
    /\ dpc = "idle"

\* the two sessions of the UI that may run at once
Runs == {1, 2}

\* yt_audio_mix.run as defined at import, before any UI run replaces it
DefaultRun == 0

SessionsIdle ==
    /\ ym_run = DefaultRun
    /\ upc = [r \in Runs |-> "idle"]
    /\ ucalls = [r \in Runs |-> 0]
    /\ looked_up = [r \in Runs |-> DefaultRun]
    /\ child_left = [r \in Runs |-> 0]
    /\ logs = [r \in Runs |-> <<>>]

\* ------------------------------------------------------------------------
\* Pipeline: inputs
\* ------------------------------------------------------------------------

\* a file of the work directory (or the output file): kind and slot
Path(kind, slot) == [kind |-> kind, slot |-> slot]

SilenceN == Path("silence.wav", 0)

ListFile == Path("concat_list.txt", 0)

OutPath == Path("final_output", 0)

\* the extensions scanned per background slot, in scanning order
BgExts == <<".wav", ".mp3", ".m4a", ".aac", ".flac", ".ogg", ".opus">>

\* range(1, 5): the background slots
BgSlots == 1..4

\* the first existing extension of slot i, 0 when no file of the slot exists
FirstExt(dir, i) ==
    IF \E k \in 1..Len(BgExts) : <<i, BgExts[k]>> \in dir
    THEN CHOOSE k \in 1..Len(BgExts) :
            /\ <<i, BgExts[k]>> \in dir
            /\ \A j \in 1..(k - 1) : <<i, BgExts[j]>> \notin dir
    ELSE 0

RECURSIVE ResolveFrom(_, _)
ResolveFrom(dir, i) ==
    IF i \notin BgSlots THEN <<>>
    ELSE IF FirstExt(dir, i) = 0 THEN ResolveFrom(dir, i + 1)
    ELSE << <<i, BgExts[FirstExt(dir, i)]>> >> \o ResolveFrom(dir, i + 1)

\* the found background files, in slot order, first match per slot
ResolveBackgrounds(dir) == ResolveFrom(dir, 1)

\* the clamp with the index wrapping around instead
BgIndexWrap(i, c) == IF c = 0 THEN -1 ELSE (i - 1) % c

\* bg_idx = min(idx, len(background_paths)) - 1
BgIndex(i, c) == Min(i, c) - 1

\* list[k] of Python for a 0-based k that may be negative; <<>> is IndexError
PyIndex(list, k) ==
    IF 0 <= k /\ k < Len(list) THEN <<list[k + 1]>>
    ELSE IF k < 0 /\ -k <= Len(list) THEN <<list[Len(list) + k + 1]>>
    ELSE <<>>

\* the group without the repeat of the track
OrderGroupNoRepeat(bg, t, sil) == <<bg, t, sil>>

\* order.append(bg_pcm); order.append(track); order.append(silenceN); order.append(track)
OrderGroup(bg, t, sil) == <<bg, t, sil, t>>

\* f"file '{p.as_posix()}'\n"
ManifestLine(p) == <<"file '", p, "'\n">>

\* build_concat_list: one line per path, in order
BuildConcatList(ord) == [k \in 1..Len(ord) |-> ManifestLine(ord[k])]

ExitCodes == {0, 1}

\* what a tool leaves behind: its output file when it exits with status 0
Produced(rc, p) == IF rc = 0 THEN {p} ELSE {}

\* a runner that never checks the exit status
RaisesNever(rc) == FALSE

\* if proc.returncode != 0: raise
Raises(rc) == rc # 0

\* a handler that removes the work directory on failure
WorkRemovedOnFailure(w) == {}

\* no path of either program deletes anything from the work directory
WorkAfterFailure(w) == w

\* bound: longest enumerated argument list of the command line
MaxArgs == 5

CliArgTokens == { <<"/">>, <<" ", "a">> }

CliSpeeds == { Float(0, 1, 0), FOne, Float(3, 2, 0) }

\* the slider: 0.25 .. 4.0
UiSpeeds == { FOne, Float(3, 2, 0) }

\* range(4): the input slots of the UI
UiSlots == 1..4

UiSlotChoices ==
    { [type |-> "YouTube URL", value |-> <<" ">>],
      [type |-> "YouTube URL", value |-> <<"a", " ">>],
      [type |-> "Upload File", value |-> <<"f">>],
      [type |-> "Skip", value |-> <<>>] }

\* the directories tried: any set of slots present as .mp3, and two
\* directories holding one slot under two extensions
BgDirs ==
    { { <<i, ".mp3">> : i \in S } : S \in SUBSET BgSlots }
        \cup { { <<1, ".mp3">>, <<1, ".wav">> }, { <<2, ".opus">>, <<2, ".m4a">>, <<4, ".ogg">> } }

\* None
None == <<"None">>

\* streamlit main, the slot loop: the urls list and the uploaded_files list
RECURSIVE UiCollectUrls(_, _)
UiCollectUrls(slots, i) ==
    IF i > Len(slots) THEN <<>>
    ELSE IF slots[i].type = "YouTube URL"
         THEN <<Strip(slots[i].value)>> \o UiCollectUrls(slots, i + 1)
         ELSE UiCollectUrls(slots, i + 1)

RECURSIVE UiCollectFiles(_, _)
UiCollectFiles(slots, i) ==
    IF i > Len(slots) THEN <<>>
    ELSE IF slots[i].type = "Upload File"
         THEN <<slots[i].value>> \o UiCollectFiles(slots, i + 1)
         ELSE IF slots[i].type = "Skip"
         THEN <<None>> \o UiCollectFiles(slots, i + 1)
         ELSE UiCollectFiles(slots, i + 1)

PipelineInit ==
    /\ mode \in {"cli", "ui"}
    /\ pc = "start"
    /\ raw_args \in (IF mode = "cli" THEN SeqsOf(CliArgTokens, 1, MaxArgs)
                                     ELSE [UiSlots -> UiSlotChoices])
    /\ speed \in (IF mode = "cli" THEN CliSpeeds ELSE UiSpeeds)
    /\ bg_dir \in BgDirs
    /\ urls = <<>>
    /\ uploaded_files = <<>>
    /\ background_paths = <<>>
    /\ work = {}
    /\ materialized = {}
    /\ spawned = <<>>
    /\ fixed_tracks = <<>>
    /\ sped_tracks = <<>>
    /\ order = <<>>
    /\ idx = 0
    /\ manifest = NoFile
    /\ result = "none"

\* ------------------------------------------------------------------------
\* Pipeline: steps.  Every call of ym.run is one step; its exit status is
\* the tool's choice.  A step that raises ends the run: SystemExit passes
\* the CLI's "except Exception", the UI's handler reports the error.
\* ------------------------------------------------------------------------

inputs == <<mode, raw_args, speed, bg_dir>>

Invocation(tool, op, slot, src, rc) ==
    [tool |-> tool, op |-> op, slot |-> slot, src |-> src, rc |-> rc]

\* the run ends with an error of the given kind
Fails(kind) ==
    /\ pc' = "failed"
    /\ result' = kind
    /\ work' = WorkAfterFailure(work)

\* cli main: clean_urls, require_tools, the check for no URL at all
CliCleanUrls ==
    /\ mode = "cli" /\ pc = "start"
    /\ urls' = CleanUrlsCli(raw_args)
    /\ IF Len(urls') = 0
       THEN Fails("config_error")
       ELSE pc' = "cli_backgrounds" /\ UNCHANGED <<result, work>>
    /\ UNCHANGED <<inputs, uploaded_files, background_paths, materialized, spawned,
                   fixed_tracks, sped_tracks, order, idx, manifest>>
    /\ UNCHANGED <<rvars, tvars, dvars, cvars>>

\* cli main: resolve the background files, fail when none; mkdtemp
CliResolveBackgrounds ==
    /\ mode = "cli" /\ pc = "cli_backgrounds"
    /\ background_paths' = ResolveBackgrounds(bg_dir)
    /\ IF Len(background_paths') = 0
       THEN Fails("config_error")
       ELSE pc' = "silence" /\ UNCHANGED <<result, work>>
    /\ UNCHANGED <<inputs, urls, uploaded_files, materialized, spawned,
                   fixed_tracks, sped_tracks, order, idx, manifest>>
    /\ UNCHANGED <<rvars, tvars, dvars, cvars>>

\* streamlit main: collect the slots, require one source, call _run_pipeline
UiMain ==
    /\ mode = "ui" /\ pc = "start"
    /\ urls' = UiCollectUrls(raw_args, 1)
    /\ uploaded_files' = UiCollectFiles(raw_args, 1)
    /\ LET valid_urls  == SelectSeq(urls', LAMBDA u : Strip(u) # <<>>)
           valid_files == SelectSeq(uploaded_files', LAMBDA f : f # None)
       IN  IF valid_urls = <<>> /\ valid_files = <<>>
           THEN Fails("config_error")
           ELSE pc' = "ui_pipeline" /\ UNCHANGED <<result, work>>
    /\ UNCHANGED <<inputs, background_paths, materialized, spawned,
                   fixed_tracks, sped_tracks, order, idx, manifest>>
    /\ UNCHANGED <<rvars, tvars, dvars, cvars>>

\* _run_pipeline: the speed check, the runner, require_tools, mkdtemp
UiEnterPipeline ==
    /\ mode = "ui" /\ pc = "ui_pipeline"
    /\ IF NonPositive(speed)
       THEN Fails("config_error")
       ELSE pc' = "silence" /\ UNCHANGED <<result, work>>
    /\ UNCHANGED <<inputs, urls, uploaded_files, background_paths, materialized, spawned,
                   fixed_tracks, sped_tracks, order, idx, manifest>>
    /\ UNCHANGED <<rvars, tvars, dvars, cvars>>

\* make_silence(silence_seconds, silenceN)
MakeSilence ==
    /\ pc = "silence"
    /\ \E rc \in ExitCodes :
          /\ spawned' = Append(spawned, Invocation("ffmpeg", "silence", 0, <<>>, rc))
          /\ IF Raises(rc)
             THEN Fails("tool_failure") /\ UNCHANGED <<materialized, idx>>
             ELSE /\ work' = work \cup Produced(rc, SilenceN)
                  /\ materialized' = materialized \cup Produced(rc, SilenceN)
                  /\ pc' = "download"
                  /\ idx' = 1
                  /\ UNCHANGED result
    /\ UNCHANGED <<inputs, urls, uploaded_files, background_paths,
                   fixed_tracks, sped_tracks, order, manifest>>
    /\ UNCHANGED <<rvars, tvars, dvars, cvars>>

\* download_audio, first half: yt-dlp, then the glob for what it wrote
DownloadFetch ==
    /\ pc = "download"
    /\ idx <= Len(urls)
    /\ \E rc \in ExitCodes, wrote \in BOOLEAN :
          /\ spawned' = Append(spawned, Invocation("yt-dlp", "fetch", idx, urls[idx], rc))
          /\ IF Raises(rc)
             THEN Fails("tool_failure") /\ UNCHANGED materialized
             ELSE IF ~wrote
             THEN Fails("download_missing") /\ UNCHANGED materialized
             ELSE /\ work' = work \cup Produced(rc, Path("video.raw", idx))
                  /\ materialized' = materialized \cup Produced(rc, Path("video.raw", idx))
                  /\ pc' = "normalize"
                  /\ UNCHANGED result
    /\ UNCHANGED <<inputs, urls, uploaded_files, background_paths,
                   fixed_tracks, sped_tracks, order, idx, manifest>>
    /\ UNCHANGED <<rvars, tvars, dvars, cvars>>

\* download_audio, second half: ffmpeg to <slot>.fixed.wav; fixed_tracks.append
DownloadNormalize ==
    /\ pc = "normalize"
    /\ \E rc \in ExitCodes :
          /\ spawned' = Append(spawned,
                Invocation("ffmpeg", "normalize", idx, Path("video.raw", idx), rc))
          /\ IF Raises(rc)
             THEN Fails("tool_failure") /\ UNCHANGED <<materialized, fixed_tracks, idx>>
             ELSE /\ work' = work \cup Produced(rc, Path("video.fixed.wav", idx))
                  /\ materialized' = materialized \cup Produced(rc, Path("video.fixed.wav", idx))
                  /\ fixed_tracks' = Append(fixed_tracks, Path("video.fixed.wav", idx))
                  /\ idx' = idx + 1
                  /\ pc' = "download"
                  /\ UNCHANGED result
    /\ UNCHANGED <<inputs, urls, uploaded_files, background_paths,
                   sped_tracks, order, manifest>>
    /\ UNCHANGED <<rvars, tvars, dvars, cvars>>

\* where the run goes once the tracks are final: the cli has its
\* backgrounds already, _run_pipeline resolves them now
AfterTempo == IF mode = "cli" THEN "order" ELSE "ui_backgrounds"

\* the download loop is over: if abs(speed - 1.0) > 1e-9 ... else sped_tracks = fixed_tracks
DownloadsDone ==
    /\ pc = "download"
    /\ idx > Len(urls)
    /\ IF DiffersFromOne(speed)
       THEN sped_tracks' = <<>> /\ pc' = "tempo"
       ELSE sped_tracks' = fixed_tracks /\ pc' = AfterTempo
    /\ idx' = 1
    /\ UNCHANGED <<inputs, urls, uploaded_files, background_paths, work, materialized,
                   spawned, fixed_tracks, order, manifest, result>>
    /\ UNCHANGED <<rvars, tvars, dvars, cvars>>

\* tempo_adjust(t, out, speed): the speed check, the filter chain (see the
\* Tempo Filter Chain Builder), ffmpeg; sped_tracks.append(out)
TempoAdjust ==
    /\ pc = "tempo"
    /\ idx <= Len(fixed_tracks)
    /\ IF NonPositive(speed)
       THEN Fails("config_error") /\ UNCHANGED <<spawned, materialized, sped_tracks, idx>>
       ELSE \E rc \in ExitCodes :
          /\ spawned' = Append(spawned,
                Invocation("ffmpeg", "tempo", idx, fixed_tracks[idx], rc))
          /\ IF Raises(rc)
             THEN Fails("tool_failure") /\ UNCHANGED <<materialized, sped_tracks, idx>>
             ELSE /\ work' = work \cup Produced(rc, Path("video_x.wav", idx))
                  /\ materialized' = materialized \cup Produced(rc, Path("video_x.wav", idx))
                  /\ sped_tracks' = Append(sped_tracks, Path("video_x.wav", idx))
                  /\ idx' = idx + 1
                  /\ UNCHANGED <<pc, result>>
    /\ UNCHANGED <<inputs, urls, uploaded_files, background_paths,
                   fixed_tracks, order, manifest>>
    /\ UNCHANGED <<rvars, tvars, dvars, cvars>>

TempoLoopDone ==
    /\ pc = "tempo"
    /\ idx > Len(fixed_tracks)
    /\ pc' = AfterTempo
    /\ idx' = 1
    /\ UNCHANGED <<inputs, urls, uploaded_files, background_paths, work, materialized,
                   spawned, fixed_tracks, sped_tracks, order, manifest, result>>
    /\ UNCHANGED <<rvars, tvars, dvars, cvars>>

\* _run_pipeline: resolve the background files (no check for none)
UiResolveBackgrounds ==
    /\ mode = "ui" /\ pc = "ui_backgrounds"
    /\ background_paths' = ResolveBackgrounds(bg_dir)
    /\ pc' = "order"
    /\ UNCHANGED <<inputs, urls, uploaded_files, work, materialized, spawned,
                   fixed_tracks, sped_tracks, order, idx, manifest, result>>
    /\ UNCHANGED <<rvars, tvars, dvars, cvars>>

\* one turn of the order loop: pick the background, reencode_to_pcm, append the group
OrderStep ==
    /\ pc = "order"
    /\ idx <= Len(sped_tracks)
    /\ LET bg_idx == BgIndex(idx, Len(background_paths))
           bg_src == PyIndex(background_paths, bg_idx)
           bg_pcm == Path("background.wav", idx)
       IN  IF bg_src = <<>>
           THEN Fails("index_error") /\ UNCHANGED <<spawned, materialized, order, idx>>
           ELSE \E rc \in ExitCodes :
              /\ spawned' = Append(spawned,
                    Invocation("ffmpeg", "background", idx, bg_src[1], rc))
              /\ IF Raises(rc)
                 THEN Fails("tool_failure") /\ UNCHANGED <<materialized, order, idx>>
                 ELSE /\ work' = work \cup Produced(rc, bg_pcm)
                      /\ materialized' = materialized \cup Produced(rc, bg_pcm)
                      /\ order' = order \o OrderGroup(bg_pcm, sped_tracks[idx], SilenceN)
                      /\ idx' = idx + 1
                      /\ UNCHANGED <<pc, result>>
    /\ UNCHANGED <<inputs, urls, uploaded_files, background_paths,
                   fixed_tracks, sped_tracks, manifest>>
    /\ UNCHANGED <<rvars, tvars, dvars, cvars>>

\* build_concat_list(order, list_file)
WriteManifest ==
    /\ pc = "order"
    /\ idx > Len(sped_tracks)
    /\ manifest' = BuildConcatList(order)
    /\ work' = work \cup {ListFile}
    /\ pc' = "concat"
    /\ UNCHANGED <<inputs, urls, uploaded_files, background_paths, materialized, spawned,
                   fixed_tracks, sped_tracks, order, idx, result>>
    /\ UNCHANGED <<rvars, tvars, dvars, cvars>>

\* concat_with_ffmpeg(list_file, out_path); the run returns its output
Concat ==
    /\ pc = "concat"
    /\ \E rc \in ExitCodes :
          /\ spawned' = Append(spawned, Invocation("ffmpeg", "concat", 0, ListFile, rc))
          /\ IF Raises(rc)
             THEN Fails("tool_failure") /\ UNCHANGED materialized
             ELSE /\ work' = work \cup Produced(rc, OutPath)
                  /\ materialized' = materialized \cup Produced(rc, OutPath)
                  /\ pc' = "done"
                  /\ result' = "ok"
    /\ UNCHANGED <<inputs, urls, uploaded_files, background_paths,
                   fixed_tracks, sped_tracks, order, idx, manifest>>
    /\ UNCHANGED <<rvars, tvars, dvars, cvars>>

PipelineNext ==
    \/ CliCleanUrls
    \/ CliResolveBackgrounds
    \/ UiMain
    \/ UiEnterPipeline
    \/ MakeSilence
    \/ DownloadFetch
    \/ DownloadNormalize
    \/ DownloadsDone
    \/ TempoAdjust
    \/ TempoLoopDone
    \/ UiResolveBackgrounds
    \/ OrderStep
    \/ WriteManifest
    \/ Concat

Init == PipelineInit /\ ResolverIdle /\ TempoIdle /\ DriverIdle /\ SessionsIdle

Next == PipelineNext

Spec == Init /\ [][Next]_vars

\* ------------------------------------------------------------------------
\* Transcode Driver: one invocation through yt_audio_mix.run or through
\* run_ui of streamlit_app._make_ui_runner.  The child writes its lines to
\* the pipe given to it as stdout (stderr joined) and exits; the driver
\* reads the other end.  The sink is the log callback (run_ui) or the
\* standard output (run).
\* ------------------------------------------------------------------------

\* bound: most lines one child writes
MaxLines == 3

\* bound: lines the pipe holds before the child's write blocks
PipeCap == 2

TerminatedLines == { <<"x", "\n">>, <<"y", "\n">> }

\* a last line may end without a terminator
AllLines == TerminatedLines \cup { <<"z">> }

ChildScripts ==
    { sc \in SeqsOf(AllLines, 0, MaxLines) :
        \A k \in 1..(Len(sc) - 1) : sc[k] \in TerminatedLines }

\* line.rstrip("\n")
RECURSIVE RStripNewline(_)
RStripNewline(l) ==
    IF l # <<>> /\ l[Len(l)] = "\n" THEN RStripNewline(SubSeq(l, 1, Len(l) - 1)) ELSE l

Echo == [src |-> "echo", text |-> <<">> cmd">>]

FromChild(line) == [src |-> "child", text |-> RStripNewline(line)]

\* a read loop that ends as soon as the child is gone
EndOfStreamAtExit(p, c) == c = "exited"

\* "for line in process.stdout" ends: nothing buffered and the write end closed
EndOfStream(p, c) == p = <<>> /\ c = "exited"

\* print(proc.stdout): the captured lines, then the line print itself ends
PrintedLines(cap) ==
    [k \in 1..Len(cap) |-> FromChild(cap[k])]
        \o (IF cap = <<>> \/ cap[Len(cap)] \in TerminatedLines
            THEN <<[src |-> "echo", text |-> <<>>]>> ELSE <<>>)

DriverInit ==
    /\ runner \in {"run", "run_ui"}
    /\ toWrite \in ChildScripts
    /\ written = <<>>
    /\ pipe = <<>>
    /\ child = "not started"
    /\ returncode = 0
    /\ sink = <<>>
    /\ captured = <<>>
    /\ dpc = "start"

\* run_ui: log_callback(">> ..."); subprocess.Popen(...)
UiEchoAndSpawn ==
    /\ runner = "run_ui" /\ dpc = "start"
    /\ sink' = Append(sink, Echo)
    /\ child' = "running"
    /\ dpc' = "reading"
    /\ UNCHANGED <<runner, toWrite, written, pipe, returncode, captured>>
    /\ UNCHANGED <<pvars, rvars, tvars, cvars>>

\* run_ui: for line in process.stdout: log_callback(line.rstrip("\n"))
UiForwardLine ==
    /\ runner = "run_ui" /\ dpc = "reading"
    /\ pipe # <<>>
    /\ sink' = Append(sink, FromChild(Head(pipe)))
    /\ pipe' = Tail(pipe)
    /\ UNCHANGED <<runner, toWrite, written, child, returncode, captured, dpc>>
    /\ UNCHANGED <<pvars, rvars, tvars, cvars>>

\* run_ui: the loop ends
UiEndOfStream ==
    /\ runner = "run_ui" /\ dpc = "reading"
    /\ EndOfStream(pipe, child)
    /\ dpc' = "waiting"
    /\ UNCHANGED <<runner, toWrite, written, pipe, child, returncode, sink, captured>>
    /\ UNCHANGED <<pvars, rvars, tvars, cvars>>

\* run_ui: process.wait(); raise RuntimeError on a non-zero status, else return ""
UiWait ==
    /\ runner = "run_ui" /\ dpc = "waiting"
    /\ child = "exited"
    /\ dpc' = IF Raises(returncode) THEN "raised" ELSE "returned"
    /\ UNCHANGED <<runner, toWrite, written, pipe, child, returncode, sink, captured>>
    /\ UNCHANGED <<pvars, rvars, tvars, cvars>>

\* run: print(">>", ...); subprocess.run starts the child
RunEchoAndSpawn ==
    /\ runner = "run" /\ dpc = "start"
    /\ sink' = Append(sink, Echo)
    /\ child' = "running"
    /\ dpc' = "communicating"
    /\ UNCHANGED <<runner, toWrite, written, pipe, returncode, captured>>
    /\ UNCHANGED <<pvars, rvars, tvars, cvars>>

\* run: subprocess.run collects the output into proc.stdout
RunCollect ==
    /\ runner = "run" /\ dpc = "communicating"
    /\ pipe # <<>>
    /\ captured' = Append(captured, Head(pipe))
    /\ pipe' = Tail(pipe)
    /\ UNCHANGED <<runner, toWrite, written, child, returncode, sink, dpc>>
    /\ UNCHANGED <<pvars, rvars, tvars, cvars>>

\* run: subprocess.run returns once the output is read to its end and the
\* child is gone
RunReap ==
    /\ runner = "run" /\ dpc = "communicating"
    /\ EndOfStream(pipe, child)
    /\ dpc' = "reaped"
    /\ UNCHANGED <<runner, toWrite, written, pipe, child, returncode, sink, captured>>
    /\ UNCHANGED <<pvars, rvars, tvars, cvars>>

\* run: on a non-zero status print(proc.stdout) and raise SystemExit,
\* else return proc.stdout
RunReport ==
    /\ runner = "run" /\ dpc = "reaped"
    /\ IF Raises(returncode)
       THEN sink' = sink \o PrintedLines(captured) /\ dpc' = "raised"
       ELSE sink' = sink /\ dpc' = "returned"
    /\ UNCHANGED <<runner, toWrite, written, pipe, child, returncode, captured>>
    /\ UNCHANGED <<pvars, rvars, tvars, cvars>>

\* the child writes its next line
ChildWrite ==
    /\ child = "running"
    /\ toWrite # <<>>
    /\ Len(pipe) < PipeCap
    /\ pipe' = Append(pipe, Head(toWrite))
    /\ written' = Append(written, Head(toWrite))
    /\ toWrite' = Tail(toWrite)
    /\ UNCHANGED <<runner, child, returncode, sink, captured, dpc>>
    /\ UNCHANGED <<pvars, rvars, tvars, cvars>>

\* the child exits, with either status
ChildExit ==
    /\ child = "running"
    /\ toWrite = <<>>
    /\ \E rc \in ExitCodes : returncode' = rc
    /\ child' = "exited"
    /\ UNCHANGED <<runner, toWrite, written, pipe, sink, captured, dpc>>
    /\ UNCHANGED <<pvars, rvars, tvars, cvars>>

DriverNext ==
    \/ UiEchoAndSpawn
    \/ UiForwardLine
    \/ UiEndOfStream
    \/ UiWait
    \/ RunEchoAndSpawn
    \/ RunCollect
    \/ RunReap
    \/ RunReport
    \/ ChildWrite
    \/ ChildExit

InitDriver == DriverInit /\ PipelineIdle /\ ResolverIdle /\ TempoIdle /\ SessionsIdle

SpecDriver == InitDriver /\ [][DriverNext]_vars

\* ------------------------------------------------------------------------
\* Specifications of the pure components
\* ------------------------------------------------------------------------

InitResolver == ResolverInit /\ PipelineIdle /\ TempoIdle /\ DriverIdle /\ SessionsIdle

SpecResolver == InitResolver /\ [][ResolverNext]_vars

InitTempo == TempoInit /\ PipelineIdle /\ ResolverIdle /\ DriverIdle /\ SessionsIdle

SpecTempo == InitTempo /\ [][TempoNext]_vars

\* tempo_adjust runs to its end once called: nothing else is scheduled
SpecTempoFair == SpecTempo /\ WF_vars(TempoNext)

\* ------------------------------------------------------------------------
\* Two UI pipeline runs in one process (one per browser session)
\* ------------------------------------------------------------------------

\* helper invocations followed in each run (make_silence is the first)
MaxCalls == 1

\* lines the child of one invocation writes
MaxChildLines == 1

\* one entry of a log: the run whose invocation produced it, and what it is
LogEntry(r, what) == [from |-> r, text |-> what]

\* log_callback of run c receives one entry
Deliver(c, e) == [logs EXCEPT ![c] = Append(@, e)]

\* the callback closed over by a runner; the default run prints to stdout
\* and reaches no callback
HasCallback(f) == f \in Runs

SessionsInit ==
    /\ ym_run = DefaultRun
    /\ upc = [r \in Runs |-> "start"]
    /\ ucalls = [r \in Runs |-> 0]
    /\ looked_up = [r \in Runs |-> DefaultRun]
    /\ child_left = [r \in Runs |-> 0]
    /\ logs = [r \in Runs |-> <<>>]

\* _run_pipeline: ym.run = _make_ui_runner(log_callback), then the run's own
\* "Working directory" line, which goes straight to its callback
InstallRunner(r) ==
    /\ upc[r] = "start"
    /\ ym_run' = r
    /\ logs' = Deliver(r, LogEntry(r, "Working directory"))
    /\ upc' = [upc EXCEPT ![r] = "installed"]
    /\ UNCHANGED <<ucalls, looked_up, child_left>>
    /\ UNCHANGED <<pvars, rvars, tvars, dvars>>

\* a helper (make_silence, download_audio, ...) calls run(...): the name is
\* resolved in the module's globals now; the runner found echoes the command
\* to the callback it closed over and spawns the child
HelperCall(r) ==
    /\ upc[r] = "installed"
    /\ ucalls[r] < MaxCalls
    /\ looked_up' = [looked_up EXCEPT ![r] = ym_run]
    /\ logs' = IF HasCallback(ym_run) THEN Deliver(ym_run, LogEntry(r, "echo")) ELSE logs
    /\ \E n \in 0..MaxChildLines : child_left' = [child_left EXCEPT ![r] = n]
    /\ upc' = [upc EXCEPT ![r] = "streaming"]
    /\ UNCHANGED <<ym_run, ucalls>>
    /\ UNCHANGED <<pvars, rvars, tvars, dvars>>

\* run_ui: for line in process.stdout: log_callback(line.rstrip("\n"))
ForwardLine(r) ==
    /\ upc[r] = "streaming"
    /\ child_left[r] > 0
    /\ logs' = IF HasCallback(looked_up[r])
               THEN Deliver(looked_up[r], LogEntry(r, "line")) ELSE logs
    /\ child_left' = [child_left EXCEPT ![r] = @ - 1]
    /\ UNCHANGED <<ym_run, upc, ucalls, looked_up>>
    /\ UNCHANGED <<pvars, rvars, tvars, dvars>>

\* run_ui: process.wait(); a non-zero status raises and ends the run
InvocationReturns(r) ==
    /\ upc[r] = "streaming"
    /\ child_left[r] = 0
    /\ \E rc \in ExitCodes :
          IF Raises(rc)
          THEN upc' = [upc EXCEPT ![r] = "failed"] /\ UNCHANGED ucalls
          ELSE /\ upc' = [upc EXCEPT ![r] = "installed"]
               /\ ucalls' = [ucalls EXCEPT ![r] = @ + 1]
    /\ UNCHANGED <<ym_run, looked_up, child_left, logs>>
    /\ UNCHANGED <<pvars, rvars, tvars, dvars>>

\* _run_pipeline returns after its last helper
PipelineReturns(r) ==
    /\ upc[r] = "installed"
    /\ ucalls[r] = MaxCalls
    /\ upc' = [upc EXCEPT ![r] = "done"]
    /\ UNCHANGED <<ym_run, ucalls, looked_up, child_left, logs>>
    /\ UNCHANGED <<pvars, rvars, tvars, dvars>>

SessionsNext ==
    \E r \in Runs :
        \/ InstallRunner(r)
        \/ HelperCall(r)
        \/ ForwardLine(r)
        \/ InvocationReturns(r)
        \/ PipelineReturns(r)

InitSessions == SessionsInit /\ PipelineIdle /\ ResolverIdle /\ TempoIdle /\ DriverIdle

SpecSessions == InitSessions /\ [][SessionsNext]_vars

\* ------------------------------------------------------------------------
\* Claims about the pipeline
\* ------------------------------------------------------------------------

\* the invocations of one kind, as the set of their positions in spawned
Invocations(op) == { k \in 1..Len(spawned) : spawned[k].op = op }

\* C1: a run that reaches the Timeline Builder with n tracks, 1 <= n <= 4,
\* has a Timeline of exactly 4n entries, and for every slot i the entries
\* 4(i-1)+1 .. 4(i-1)+4 are background_i, track_i, silence, track_i, with
\* the same track twice, the one silence segment, groups in slot order.
C1_Timeline ==
    manifest # NoFile =>
        LET n == Len(sped_tracks)
        IN  n \in 1..4 =>
              /\ Len(order) = 4 * n
              /\ Len(manifest) = 4 * n
              /\ \A i \in 1..n :
                    /\ order[4 * (i - 1) + 1] = Path("background.wav", i)
                    /\ order[4 * (i - 1) + 2] = sped_tracks[i]
                    /\ order[4 * (i - 1) + 3] = SilenceN
                    /\ order[4 * (i - 1) + 4] = sped_tracks[i]
                    /\ sped_tracks[i].slot = i
              /\ \A k \in 1..(4 * n) : manifest[k] = ManifestLine(order[k])

\* a run with four tracks whose manifest is written
C1_Witness ==
    /\ manifest # NoFile
    /\ Len(sped_tracks) = 4
    /\ Len(order) = 16

\* the live sources of a run, in slot order: the cli's non-placeholder
\* arguments among the four it reads, the UI's slots that hold a URL or a file
RECURSIVE UiLiveSources(_, _)
UiLiveSources(slots, i) ==
    IF i > Len(slots) THEN <<>>
    ELSE IF slots[i].type \in {"YouTube URL", "Upload File"} /\ Strip(slots[i].value) # <<>>
         THEN <<Strip(slots[i].value)>> \o UiLiveSources(slots, i + 1)
         ELSE UiLiveSources(slots, i + 1)

LiveSources ==
    IF mode = "cli"
    THEN StripAll(SelectSeq(Take(raw_args, 4), LAMBDA u : Strip(u) # <<>> /\ Strip(u) \notin Placeholders))
    ELSE UiLiveSources(raw_args, 1)

\* the source each fixed track was resolved from, in track order
TrackSources ==
    [i \in 1..Len(fixed_tracks) |->
        Strip(spawned[CHOOSE k \in Invocations("fetch") : spawned[k].slot = i].src)]

\* C2: every live source, remote or local, is resolved to exactly one
\* track and nothing else is: no download is attempted for an empty slot,
\* and the tracks placed in the Timeline are the live sources in slot order.
C2_OneTrackPerLiveSource ==
    /\ \A k \in Invocations("fetch") : Strip(spawned[k].src) # <<>>
    /\ manifest # NoFile => TrackSources = LiveSources

\* an invalid configuration: speed <= 0, no usable source, no background
InvalidConfig ==
    \/ NonPositive(speed)
    \/ LiveSources = <<>>
    \/ ResolveBackgrounds(bg_dir) = <<>>

\* C4: a run whose configuration is invalid ends in a configuration error
\* and has spawned no external process at any point before that.
C4_ConfigErrorBeforeAnySpawn ==
    (mode # "idle" /\ InvalidConfig) =>
        /\ spawned = <<>>
        /\ pc \in {"failed", "done"} => result = "config_error"

\* C5: when an external invocation exits with non-zero status no further
\* invocation is issued, the run ends as an external-tool failure with no
\* output artifact, and every segment materialized before is still there.
C5_FailureStopsRun ==
    \A k \in 1..Len(spawned) :
        spawned[k].rc # 0 =>
            /\ k = Len(spawned)
            /\ pc = "failed"
            /\ result = "tool_failure"
            /\ OutPath \notin work
            /\ materialized \subseteq work

\* a failure after the silence, a download and its normalization succeeded
C5_Witness ==
    /\ pc = "failed"
    /\ result = "tool_failure"
    /\ Cardinality(materialized) >= 3
    /\ spawned[Len(spawned)].rc # 0

\* C7: with c >= 1 found background assets, the background used for
\* track idx is the asset at 1-based position min(idx, c) of the found
\* list: a track whose index exceeds c reuses the last found asset.
C7_BackgroundClamp ==
    \A k \in Invocations("background") :
        LET i == spawned[k].slot
            c == Len(background_paths)
        IN  /\ c >= 1
            /\ i <= c => spawned[k].src = background_paths[i]
            /\ i > c => spawned[k].src = background_paths[c]

\* four tracks over two found assets: positions 1, 2, 2, 2
C7_Witness ==
    /\ Len(background_paths) = 2
    /\ Cardinality(Invocations("background")) = 4
    /\ \A k \in Invocations("background") :
          spawned[k].src = background_paths[<<1, 2, 2, 2>>[spawned[k].slot]]

\* C9: when the manifest is written every path it lists (silence, tracks,
\* per-slot backgrounds) was produced by a step of this run that completed
\* successfully; no path enters the order before its step has completed.
C9_ManifestAfterMaterialization ==
    /\ \A k \in 1..Len(order) : order[k] \in materialized
    /\ manifest # NoFile => \A k \in 1..Len(manifest) : manifest[k][2] \in materialized

\* a written manifest that lists tempo-adjusted tracks, backgrounds and silence
C9_Witness ==
    /\ manifest # NoFile
    /\ Len(manifest) >= 8
    /\ \E k \in 1..Len(manifest) : manifest[k][2].kind = "video_x.wav"

\* ------------------------------------------------------------------------
\* Claims about the Transcode Driver
\* ------------------------------------------------------------------------

\* the child's lines the sink has received, in the order received
SinkLines == LET got == SelectSeq(sink, LAMBDA r : r.src = "child")
             IN  [k \in 1..Len(got) |-> got[k].text]

Stripped(ls) == [k \in 1..Len(ls) |-> RStripNewline(ls[k])]

IsPrefix(a, b) == Len(a) <= Len(b) /\ a = SubSeq(b, 1, Len(a))

\* the driver has collected the child's exit status: process.wait() or
\* subprocess.run has returned
Reaped == dpc \in {"reaped", "returned", "raised"}

\* C6 as stated: through run and through run_ui alike, every line the child
\* writes is forwarded to the sink before the process exits (taken at its
\* weakest: before the driver has collected the exit), and the sink
\* receives the lines in the order written, none dropped.
C6_ForwardedBeforeExit ==
    runner \in {"run", "run_ui"} =>
        /\ IsPrefix(SinkLines, Stripped(written))
        /\ Reaped => SinkLines = Stripped(written)

\* C6 as the code has it.  run_ui forwards every line the moment it reads
\* it, in the order written and none dropped, and has forwarded them all
\* before it collects the exit and returns or raises.  run forwards
\* nothing before the exit: it prints the captured lines, in order, only
\* after a non-zero exit, and on success hands them back unprinted.
C6_ForwardedBeforeReturn ==
    /\ runner = "run_ui" =>
          /\ Stripped(written) = SinkLines \o Stripped(pipe)
          /\ dpc \in {"waiting", "returned", "raised"} =>
                toWrite = <<>> /\ SinkLines = Stripped(written)
          /\ dpc # "start" => sink[1] = Echo
    /\ runner = "run" =>
          /\ written = captured \o pipe
          /\ dpc # "raised" => SinkLines = <<>>
          /\ dpc = "raised" => SinkLines = Stripped(written) /\ toWrite = <<>>
          /\ dpc = "returned" => captured = written /\ toWrite = <<>>

\* run_ui raising after a child that wrote two lines or more and failed
C6_Witness ==
    /\ runner = "run_ui"
    /\ dpc = "raised"
    /\ Len(written) >= 2
    /\ Len(SinkLines) = Len(written)

\* ------------------------------------------------------------------------
\* Claims about the Input Resolver
\* ------------------------------------------------------------------------

\* what C3 states: the entries left after dropping, then the first four
ResolverExpected(raw) ==
    Take(SelectSeq(StripAll(raw), LAMBDA e : e # <<>> /\ e \notin Placeholders), 4)

\* C3: for every raw list, each resolver returns, in input order, the first 4
\* of the entries left after dropping empty, whitespace-only and placeholder
\* entries (entries compared with their surrounding blanks removed).
C3_DropThenCap ==
    /\ rcli # NotRun => StripAll(rcli) = ResolverExpected(rraw)
    /\ rui # NotRun => rui = ResolverExpected(rraw)

\* ------------------------------------------------------------------------
\* Claims about the Tempo Filter Chain Builder
\* ------------------------------------------------------------------------

\* a filter's value as a float: 2.0, 1.0 and 0.5 are powers of two
FactorF(m) ==
    IF m = AtempoTwo THEN Float(1, 1, 1)
    ELSE IF m = AtempoHalf THEN Float(1, 1, -1)
    ELSE IF m = Million THEN FOne
    ELSE Float(m, Million, 0)

RECURSIVE ProductF(_)
ProductF(fs) ==
    IF fs = <<>> THEN FOne
    ELSE LET x == FactorF(Head(fs))
             y == ProductF(Tail(fs))
         IN  Float(x.n * y.n, x.d * y.d, x.e + y.e)

\* |p - v| <= 1e-6 * v, the two values brought to a common power of two
RelClose(p, v) ==
    LET k == p.e - v.e
        a == p.n * Pow2(k) * v.d
        b == v.n * p.d * Pow2(-k)
    IN  Abs(a - b) <= b \div Million

\* C8: when the chain is complete, the product of its sub-factors (the
\* remainder as rounded to 6 places) equals speed within 1e-6 relative.
C8_ProductWithinTolerance ==
    tpc = "done" => RelClose(ProductF(tfilters), tspeed)

\* a chain of three factors or more whose remainder was really rounded
C8_Witness ==
    /\ tpc = "done"
    /\ Len(tfilters) >= 3
    /\ tfilters[Len(tfilters)] * FDen(ts) # FNum(ts) * Million

C10_Range ==
    /\ \A i \in 1..Len(tfilters) : AtempoHalf <= tfilters[i] /\ tfilters[i] <= AtempoTwo
    /\ (tpc = "low" /\ (tfilters = <<>> \/ tfilters[Len(tfilters)] = AtempoTwo)) =>
          IF FLess(Two, tspeed)
          THEN FLess(FOne, ts) /\ FLeq(ts, Two) /\ tfilters # <<>>
          ELSE ts = tspeed /\ tfilters = <<>>
    /\ tpc \in {"emit", "done"} =>
          /\ FLeq(Half, ts) /\ FLeq(ts, Two)
          /\ FLess(tspeed, Half) => FLess(ts, FOne)

\* C10: for every speed > 0 both loops terminate and every emitted
\* sub-factor, the final remainder included, lies in [0.5, 2.0]; after the
\* > 2.0 loop the running value is in (1.0, 2.0] or speed was never above
\* 2.0, after the < 0.5 loop it is in [0.5, 1.0) or was never below 0.5.
C10_TerminatesInRange ==
    /\ []C10_Range
    /\ <>(tpc \in {"done", "rejected"})

\* the run on speed = 0.0001: fourteen 0.5 factors and a remainder
C10_Witness ==
    /\ tpc = "done"
    /\ tspeed = Speed0001
    /\ Len(tfilters) > 10

\* ------------------------------------------------------------------------
\* Claims about concurrent UI runs
\* ------------------------------------------------------------------------

\* C11: when two UI pipeline runs execute concurrently in the same process,
\* every log line produced by an external invocation of one run is delivered
\* to that run's own log callback and never to the other run's callback, in
\* every interleaving of the two runs' steps.
C11_OwnCallbackOnly ==
    \A c \in Runs : \A i \in 1..Len(logs[c]) : logs[c][i].from = c

====
